---- MODULE Spec2Model ----
(***************************************************************************)
(* The client-side UI state controller of the SudReg API guide             *)
(* (src/script.js, lines 1-163): theme, language, sidebar, navigation      *)
(* highlighting, framework tabs, code copy and the assistant hand-off.     *)
(*                                                                         *)
(* The document (index.html) is the controller's environment.  Its         *)
(* elements are the definitions of the section "The document"; the         *)
(* controller's handlers are translated statement by statement from        *)
(* script.js.                                                              *)
(***************************************************************************)
EXTENDS Integers, Sequences, FiniteSets, TLC

VARIABLES
    pc,             \* "loading" | "ready" | "failed": the DOMContentLoaded handler
    doc,            \* which optional elements the document holds
    storedTheme,    \* localStorage 'theme'
    storedLanguage, \* localStorage 'language'
    dataTheme,      \* <html data-theme>
    docLang,        \* document.documentElement.lang
    sunDisplay,     \* .sun-icon  style.display
    moonDisplay,    \* .moon-icon style.display
    prismHref,      \* #prism-theme href
    blockDisplay,   \* [data-lang] elements: style.display
    textContent,    \* [data-hr], [data-en] elements: textContent
    langBtnActive,  \* .lang-switcher-inline buttons: class 'active'
    sidebarActive,  \* #sidebar: class 'active'
    innerWidth,     \* window.innerWidth
    observing,      \* the IntersectionObserver is registered
    intercepting,   \* the click listeners of the sidebar links are attached
    navActive,      \* .sidebar-nav a: class 'active'
    lastNav,        \* what the last click on a sidebar link did
    tabActive,      \* .tab-btn: class 'active'
    contentActive,  \* .framework-content: class 'active'
    label,          \* the copy button: textContent
    clipboard,      \* the system clipboard
    writes,         \* clipboard writes in flight, by the label shown at the click
    timers,         \* pending setTimeout callbacks, in firing order
    rejected,       \* the clipboard write settled last was rejected, unhandled
    opened,         \* the tabs the last call of askAI opened, the error it threw
    early,          \* events handled before DOMContentLoaded
    prev            \* the theme and language the previous page load ended with

themeVars == <<dataTheme, storedTheme, sunDisplay, moonDisplay, prismHref>>
langVars  == <<docLang, storedLanguage, blockDisplay, textContent, langBtnActive>>
navVars   == <<observing, intercepting, navActive, lastNav>>
tabVars   == <<tabActive, contentActive>>
copyVars  == <<label, clipboard, writes, timers, rejected>>
vars == <<pc, doc, themeVars, langVars, sidebarActive, innerWidth, navVars,
          tabVars, copyVars, opened, early, prev>>

(***************************************************************************)
(* Bounds                                                                  *)
(***************************************************************************)
MaxPending == 1     \* Spec: clipboard writes in flight plus restore timers pending
MaxOverlap == 3     \* SpecCopy: the same, so that clicks overlap
MaxEarly == 1       \* events handled while the document is still loading
MaxBatch == 2       \* SpecNav: entries the observer delivers in one batch

(***************************************************************************)
(* JavaScript values                                                       *)
(***************************************************************************)
Null == "<null>"    \* null: an absent attribute, element or storage key

\* mutant: no default is applied
OrElseNothing(a, b) == a

\* a || b
OrElse(a, b) == IF a = Null \/ a = "" THEN b ELSE a

\* the text a textContent assignment leaves: null becomes the empty string
AsText(v) == IF v = Null THEN "" ELSE v

RECURSIVE IncludesAt(_, _, _)
IncludesAt(s, t, i) ==
    IF i + Len(t) > Len(s) THEN FALSE
    ELSE IF SubSeq(s, i + 1, i + Len(t)) = t THEN TRUE
    ELSE IncludesAt(s, t, i + 1)

\* String.prototype.includes, on strings as sequences of characters
Includes(s, t) == IncludesAt(s, t, 0)

(***************************************************************************)
(* The document                                                            *)
(***************************************************************************)
Themes == {"dark", "light"}
Languages == {"hr", "en"}

PrismDark == "prism-tomorrow.min.css"
PrismLight == "prism.min.css"
PrismInitial == "prism-tomorrow.min.css"

\* content blocks carrying data-lang
Blocks == {"intro-hr", "intro-en", "auth-hr", "auth-en"}
DataLang(b) == IF b \in {"intro-hr", "auth-hr"} THEN "hr" ELSE "en"

\* elements carrying data-hr or data-en; "note" carries data-hr only
I18nEls == {"nav-overview", "nav-auth", "note"}
DataAttr(el, lang) ==
    CASE el = "nav-overview" /\ lang = "hr" -> "Pregled"
      [] el = "nav-overview" /\ lang = "en" -> "Overview"
      [] el = "nav-auth" /\ lang = "hr" -> "Autentifikacija"
      [] el = "nav-auth" /\ lang = "en" -> "Authentication"
      [] el = "note" /\ lang = "hr" -> "Napomena"
      [] OTHER -> Null

LangButtons == {"lang-hr-btn", "lang-en-btn"}
LangBtnId(lang) ==
    CASE lang = "hr" -> "lang-hr-btn"
      [] lang = "en" -> "lang-en-btn"
      [] OTHER -> "lang-?-btn"

\* sections (class 'section'), their ids and their offsetTop
Sections == {"overview", "auth"}
OffsetTop(id) ==
    CASE id = "overview" -> 40
      [] id = "auth" -> 900

\* sidebar links and their href; "l-gone" points at an id no element has
NavLinks == {"l-auth", "l-gone"}
Href(link) ==
    CASE link = "l-auth" -> <<"#", "auth">>
      [] link = "l-gone" -> <<"#", "changelog">>

\* document.querySelector('#id')
QuerySelector(sel) == IF sel[2] \in Sections THEN sel[2] ELSE Null

Widths == {1024, 1025}

\* framework example blocks and their ids, as character sequences
Node == <<"n", "o", "d", "e">>
NodeJs == <<"n", "o", "d", "e", "j", "s">>
Frameworks == {Node, NodeJs}

\* the tab buttons, one per framework: onclick="showFramework('<id>')"
Tabs == Frameworks
OnClick(tab) ==
    <<"s", "h", "o", "w", "F", "r", "a", "m", "e", "w", "o", "r", "k", "(", "'">>
        \o tab \o <<"'", ")">>

\* arguments showFramework is called with: the ids and an id no block has
Vue == <<"v", "u", "e">>
FrameworkArgs == Frameworks \cup {Vue}

\* the copy button's label as loaded, and the text of the code block following it
CopyLabel == "Copy"
CodeText == "grant_type=client_credentials"

\* topic keys the assistant buttons pass to askAI
Topics == {"general", "beginner_concepts", "auth_help", "endpoints"}

(***************************************************************************)
(* Program constants                                                       *)
(***************************************************************************)
HeaderOffset == 80
MobileWidth == 1024
RestoreDelay == 2000
Copied == "Copied!"

\* the labels the copy button shows
Labels == {CopyLabel, Copied}

(***************************************************************************)
(* Theme management                                                        *)
(***************************************************************************)
\* mutant: toggleTheme always asks for the dark theme
NewThemeStuck(currentTheme) == "dark"

\* mutant: the comparison is made against 'light'
NewThemeInverted(currentTheme) == IF currentTheme = "light" THEN "dark" ELSE "light"

\* mutant: a third theme follows the light one
NewThemeThreeWay(currentTheme) ==
    IF currentTheme = "dark" THEN "light"
    ELSE IF currentTheme = "light" THEN "system" ELSE "dark"

\* toggleTheme: currentTheme === 'dark' ? 'light' : 'dark'
NewTheme(currentTheme) == IF currentTheme = "dark" THEN "light" ELSE "dark"

\* mutant: the light branch forgets to hide the moon icon
IconDisplayMoonStays(theme) ==
    IF theme = "dark" THEN [sun |-> "none", moon |-> "block"]
    ELSE [sun |-> "block", moon |-> "block"]

\* setTheme: the style.display the two branches give the icons
IconDisplay(theme) ==
    IF theme = "dark" THEN [sun |-> "none", moon |-> "block"]
    ELSE [sun |-> "block", moon |-> "none"]

\* mutant: both branches set the dark stylesheet
PrismUrlDark(theme) == PrismDark

\* setTheme: the stylesheet the two branches select
PrismUrl(theme) == IF theme = "dark" THEN PrismDark ELSE PrismLight

\* setTheme dereferences sunIcon, then moonIcon: a missing one is a TypeError
SetThemeThrows == ~doc.sun \/ ~doc.moon

\* mutant: setTheme without localStorage.setItem
setThemeNoStore(theme) ==
    /\ dataTheme' = theme
    /\ storedTheme' = storedTheme
    /\ sunDisplay' = IconDisplay(theme).sun
    /\ moonDisplay' = IconDisplay(theme).moon
    /\ prismHref' = PrismUrl(theme)

\* what setTheme reads and writes
ThemeState ==
    [dataTheme |-> dataTheme, storedTheme |-> storedTheme, sun |-> sunDisplay,
     moon |-> moonDisplay, prism |-> prismHref]

\* mutant: the icons are flipped from what they show instead of being set
SetThemeOnFlipping(s, theme) ==
    [dataTheme |-> theme,
     storedTheme |-> theme,
     sun |-> IF s.sun = "none" THEN "block" ELSE "none",
     moon |-> IF s.moon = "none" THEN "block" ELSE "none",
     prism |-> PrismUrl(theme)]

\* mutant: the icons are touched before the attribute and the storage are
\* written, so a missing icon aborts the call before anything changed
SetThemeOnIconsFirst(s, theme) ==
    IF doc.sun /\ doc.moon
    THEN [dataTheme |-> theme, storedTheme |-> theme,
          sun |-> IconDisplay(theme).sun, moon |-> IconDisplay(theme).moon,
          prism |-> IF doc.prism THEN PrismUrl(theme) ELSE s.prism]
    ELSE s

\* mutant: setTheme without setAttribute('data-theme', theme)
SetThemeOnNoAttribute(s, theme) ==
    [dataTheme |-> s.dataTheme,
     storedTheme |-> theme,
     sun |-> IF doc.sun THEN IconDisplay(theme).sun ELSE s.sun,
     moon |-> IF doc.sun /\ doc.moon THEN IconDisplay(theme).moon ELSE s.moon,
     prism |-> IF doc.sun /\ doc.moon /\ doc.prism THEN PrismUrl(theme)
               ELSE s.prism]

\* setTheme(theme) applied to s, up to the statement that throws when an icon
\* is missing: the attribute and the storage are written first (lines 11-12),
\* then sunIcon, moonIcon and prismTheme in the order of the branch
SetThemeOn(s, theme) ==
    [dataTheme |-> theme,
     storedTheme |-> theme,
     sun |-> IF doc.sun THEN IconDisplay(theme).sun ELSE s.sun,
     moon |-> IF doc.sun /\ doc.moon THEN IconDisplay(theme).moon ELSE s.moon,
     prism |-> IF doc.sun /\ doc.moon /\ doc.prism THEN PrismUrl(theme)
               ELSE s.prism]

\* toggleTheme() applied to s
ToggleThemeOn(s) == SetThemeOn(s, NewTheme(s.dataTheme))

\* setTheme(theme) as a step
setTheme(theme) ==
    LET after == SetThemeOn(ThemeState, theme)
    IN  /\ dataTheme' = after.dataTheme
        /\ storedTheme' = after.storedTheme
        /\ sunDisplay' = after.sun
        /\ moonDisplay' = after.moon
        /\ prismHref' = after.prism

(***************************************************************************)
(* Language management                                                     *)
(***************************************************************************)
\* mutant: the blocks of the other language are never hidden
BlockDisplayShowAll(b, lang) == ""

\* el.style.display = el.getAttribute('data-lang') === lang ? '' : 'none'
BlockDisplay(b, lang) == IF DataLang(b) = lang THEN "" ELSE "none"

\* mutant: the text is always taken from data-hr
SidebarTextCroatian(el, lang) == AsText(DataAttr(el, "hr"))

\* el.textContent = el.getAttribute(`data-${lang}`)
SidebarText(el, lang) == AsText(DataAttr(el, lang))

\* mutant: the button id is compared with a fixed id
LangBtnMarkCroatian(btn, lang) == btn = "lang-hr-btn"

\* btn.classList.toggle('active', btn.id === `lang-${lang}-btn`)
LangBtnMark(btn, lang) == btn = LangBtnId(lang)

\* mutant: switchLanguage without localStorage.setItem
switchLanguageNoStore(lang) ==
    /\ docLang' = lang
    /\ UNCHANGED storedLanguage
    /\ blockDisplay' = [b \in Blocks |-> BlockDisplay(b, lang)]
    /\ textContent' = [el \in I18nEls |-> SidebarText(el, lang)]
    /\ langBtnActive' = [btn \in LangButtons |-> LangBtnMark(btn, lang)]

switchLanguage(lang) ==
    /\ docLang' = lang
    /\ storedLanguage' = lang
    /\ blockDisplay' = [b \in Blocks |-> BlockDisplay(b, lang)]
    /\ textContent' = [el \in I18nEls |-> SidebarText(el, lang)]
    /\ langBtnActive' = [btn \in LangButtons |-> LangBtnMark(btn, lang)]

(***************************************************************************)
(* Sidebar and navigation                                                  *)
(***************************************************************************)
\* classList.toggle('active') on #sidebar
toggleSidebar == sidebarActive' = ~sidebarActive

\* link.classList.toggle('active', link.getAttribute('href') === `#${id}`)
LinkMark(link, id) == Href(link) = <<"#", id>>

\* mutant: the matching link is marked, the others are left as they are
ObserveEntryAdds(active, entry) ==
    IF entry.isIntersecting
    THEN [link \in NavLinks |-> active[link] \/ LinkMark(link, entry.target)]
    ELSE active

\* the observer callback on one entry
ObserveEntry(active, entry) ==
    IF entry.isIntersecting
    THEN [link \in NavLinks |-> LinkMark(link, entry.target)]
    ELSE active

RECURSIVE ObserveBatch(_, _)
\* entries.forEach(...)
ObserveBatch(active, entries) ==
    IF entries = <<>> THEN active
    ELSE ObserveBatch(ObserveEntry(active, Head(entries)), Tail(entries))

\* mutant: the scroll forgets the header offset
ScrollRequestNoOffset(target) == [top |-> OffsetTop(target), behavior |-> "smooth"]

\* window.scrollTo({top: targetElement.offsetTop - 80, behavior: 'smooth'})
ScrollRequest(target) ==
    [top |-> OffsetTop(target) - HeaderOffset, behavior |-> "smooth"]

\* mutant: the sidebar is toggled at every width
IsMobileAlways(width) == TRUE

\* window.innerWidth <= 1024
IsMobile(width) == width <= MobileWidth

(***************************************************************************)
(* Framework tabs                                                          *)
(***************************************************************************)
\* content.classList.toggle('active', content.id === framework)
ContentMark(content, framework) == content = framework

\* btn.classList.toggle('active', btn.getAttribute('onclick').includes(framework))
TabMark(tab, framework) == Includes(OnClick(tab), framework)

showFramework(framework) ==
    /\ contentActive' = [c \in Frameworks |-> ContentMark(c, framework)]
    /\ tabActive' = [t \in Tabs |-> TabMark(t, framework)]

(***************************************************************************)
(* AI assistant                                                            *)
(***************************************************************************)
\* the prompt table (lines 108-121); a string is the sequence of its UTF-16 code
\* units
Prompts ==
    [
      hr |->
        [
         \* line 110
         general |->
           <<90, 100, 114, 97, 118, 111, 32, 66, 111, 114, 110, 65, 73, 33,
             32, 381, 101, 108, 105, 109, 32, 110, 97, 117, 269, 105, 116,
             105, 32, 118, 105, 353, 101, 32, 111, 32, 83, 117, 100, 82,
             101, 103, 32, 65, 80, 73, 45, 106, 117, 46, 32, 77, 111, 382,
             101, 353, 32, 108, 105, 32, 109, 105, 32, 112, 111, 109, 111,
             263, 105, 63>>,
         \* line 111
         beginner_concepts |->
           <<80, 111, 106, 97, 115, 110, 105, 32, 109, 105, 32, 111, 115,
             110, 111, 118, 110, 101, 32, 107, 111, 110, 99, 101, 112, 116,
             101, 32, 65, 80, 73, 45, 106, 97, 32, 40, 72, 84, 84, 80, 44,
             32, 74, 83, 79, 78, 44, 32, 69, 110, 100, 112, 111, 105, 110,
             116, 41, 32, 110, 97, 32, 106, 101, 100, 110, 111, 115, 116,
             97, 118, 97, 110, 32, 110, 97, 269, 105, 110, 46>>,
         \* line 112
         auth_help |->
           <<84, 114, 101, 98, 97, 109, 32, 112, 111, 109, 111, 263, 32,
             111, 107, 111, 32, 79, 65, 117, 116, 104, 50, 32, 97, 117, 116,
             101, 110, 116, 105, 102, 105, 107, 97, 99, 105, 106, 101, 32,
             122, 97, 32, 83, 117, 100, 82, 101, 103, 32, 65, 80, 73, 46,
             32, 75, 97, 107, 111, 32, 116, 111, 32, 102, 117, 110, 107, 99,
             105, 111, 110, 105, 114, 97, 63>>,
         \* line 113
         endpoints |->
           <<77, 111, 382, 101, 353, 32, 108, 105, 32, 109, 105, 32, 111,
             98, 106, 97, 115, 110, 105, 116, 105, 32, 114, 97, 122, 108,
             105, 269, 105, 116, 101, 32, 107, 114, 97, 106, 110, 106, 101,
             32, 116, 111, 269, 107, 101, 32, 40, 101, 110, 100, 112, 111,
             105, 110, 116, 115, 41, 32, 83, 117, 100, 82, 101, 103, 32, 65,
             80, 73, 45, 106, 97, 32, 105, 32, 353, 116, 111, 32, 107, 111,
             106, 97, 32, 114, 97, 100, 105, 63>>
        ],
      en |->
        [
         \* line 116
         general |->
           <<72, 101, 108, 108, 111, 32, 66, 111, 114, 110, 65, 73, 33, 32,
             73, 32, 119, 97, 110, 116, 32, 116, 111, 32, 108, 101, 97, 114,
             110, 32, 109, 111, 114, 101, 32, 97, 98, 111, 117, 116, 32,
             116, 104, 101, 32, 83, 117, 100, 82, 101, 103, 32, 65, 80, 73,
             46, 32, 67, 97, 110, 32, 121, 111, 117, 32, 104, 101, 108, 112,
             32, 109, 101, 63>>,
         \* line 117
         beginner_concepts |->
           <<69, 120, 112, 108, 97, 105, 110, 32, 116, 104, 101, 32, 98, 97,
             115, 105, 99, 32, 65, 80, 73, 32, 99, 111, 110, 99, 101, 112,
             116, 115, 32, 40, 72, 84, 84, 80, 44, 32, 74, 83, 79, 78, 44,
             32, 69, 110, 100, 112, 111, 105, 110, 116, 41, 32, 116, 111,
             32, 109, 101, 32, 105, 110, 32, 97, 32, 115, 105, 109, 112,
             108, 101, 32, 119, 97, 121, 46>>,
         \* line 118
         auth_help |->
           <<73, 32, 110, 101, 101, 100, 32, 104, 101, 108, 112, 32, 119,
             105, 116, 104, 32, 79, 65, 117, 116, 104, 50, 32, 97, 117, 116,
             104, 101, 110, 116, 105, 99, 97, 116, 105, 111, 110, 32, 102,
             111, 114, 32, 116, 104, 101, 32, 83, 117, 100, 82, 101, 103,
             32, 65, 80, 73, 46, 32, 72, 111, 119, 32, 100, 111, 101, 115,
             32, 105, 116, 32, 119, 111, 114, 107, 63>>,
         \* line 119
         endpoints |->
           <<67, 97, 110, 32, 121, 111, 117, 32, 101, 120, 112, 108, 97,
             105, 110, 32, 116, 104, 101, 32, 100, 105, 102, 102, 101, 114,
             101, 110, 116, 32, 83, 117, 100, 82, 101, 103, 32, 65, 80, 73,
             32, 101, 110, 100, 112, 111, 105, 110, 116, 115, 32, 97, 110,
             100, 32, 119, 104, 97, 116, 32, 101, 97, 99, 104, 32, 111, 110,
             101, 32, 100, 111, 101, 115, 63>>
        ]
    ]

\* String(Object), the text of the function an object literal inherits under the
\* key 'constructor': "function Object() { [native code] }"
ObjectText ==
    <<102, 117, 110, 99, 116, 105, 111, 110, 32, 79, 98, 106, 101, 99, 116,
      40, 41, 32, 123, 32, 91, 110, 97, 116, 105, 118, 101, 32, 99, 111,
      100, 101, 93, 32, 125>>

\* the keys an object literal inherits from Object.prototype, as far as the
\* callers of askAI are given them here
InheritedKeys == {"constructor"}

\* undefined, as falsy as the empty string
Undefined == <<>>

\* table[key] on an object literal: its own keys, then those of Object.prototype
Lookup(table, key) ==
    IF key \in DOMAIN table THEN table[key]
    ELSE IF key \in InheritedKeys THEN ObjectText
    ELSE Undefined

\* mutant: the topic is ignored
PromptGeneral(lang, context) == Prompts[lang].general

\* prompts[lang][context] || prompts[lang].general
Prompt(lang, context) ==
    LET found == Lookup(Prompts[lang], context)
    IN  IF found # Undefined THEN found ELSE Prompts[lang].general

\* the characters encodeURIComponent leaves alone: A-Z a-z 0-9 - _ . ! ~ * ' ( )
Unreserved(c) ==
    \/ c \in 65..90 \/ c \in 97..122 \/ c \in 48..57
    \/ c \in {45, 95, 46, 33, 126, 42, 39, 40, 41}

\* an upper-case hexadecimal digit
HexDigit(d) == IF d < 10 THEN 48 + d ELSE 55 + d

\* %XX
PercentByte(b) == <<37, HexDigit(b \div 16), HexDigit(b % 16)>>

\* the UTF-8 bytes of a code unit of the basic plane
Utf8(c) ==
    IF c < 128 THEN <<c>>
    ELSE IF c < 2048 THEN <<192 + (c \div 64), 128 + (c % 64)>>
    ELSE <<224 + (c \div 4096), 128 + ((c \div 64) % 64), 128 + (c % 64)>>

RECURSIVE PercentBytes(_)
PercentBytes(bytes) ==
    IF bytes = <<>> THEN <<>>
    ELSE PercentByte(Head(bytes)) \o PercentBytes(Tail(bytes))

\* encodeURIComponent of a string without surrogate pairs
RECURSIVE EncodeURIComponent(_)
EncodeURIComponent(str) ==
    IF str = <<>> THEN <<>>
    ELSE (IF Unreserved(Head(str)) THEN <<Head(str)>>
          ELSE PercentBytes(Utf8(Head(str))))
         \o EncodeURIComponent(Tail(str))

\* window.open(`https://bornai.com.hr/?q=${encodeURIComponent(prompt)}`, '_blank')
BornAIUrl(prompt) ==
    [endpoint |-> "https://bornai.com.hr/", q |-> EncodeURIComponent(prompt),
     target |-> "_blank"]

\* askAI(context) under the document language documentLang: the tabs it opens, or
\* the error of prompts[lang][context] when prompts[lang] is undefined
askAI(documentLang, context) ==
    LET lang == OrElse(documentLang, "hr")
    IN  IF lang \in DOMAIN Prompts
        THEN [error |-> "", tabs |-> <<BornAIUrl(Prompt(lang, context))>>]
        ELSE [error |-> "TypeError", tabs |-> <<>>]

(***************************************************************************)
(* The page as loaded, before DOMContentLoaded                             *)
(***************************************************************************)
\* lastNav: whether a sidebar link was clicked, whether preventDefault ran on
\* the last click, and the scrollTo calls that click made
NoNav == [clicked |-> FALSE, prevented |-> FALSE, scroll |-> <<>>]
\* opened: what the last call of askAI did
NoTab == [error |-> "", tabs |-> <<>>]

PageLoad ==
    /\ pc = "loading"
    /\ dataTheme = Null
    /\ docLang = "hr"
    /\ sunDisplay = ""
    /\ moonDisplay = ""
    /\ prismHref = PrismInitial
    /\ blockDisplay = [b \in Blocks |-> ""]
    /\ textContent = [el \in I18nEls |-> AsText(DataAttr(el, "hr"))]
    /\ langBtnActive = [btn \in LangButtons |-> btn = "lang-hr-btn"]
    /\ sidebarActive = FALSE
    /\ observing = FALSE
    /\ intercepting = FALSE
    /\ navActive = [link \in NavLinks |-> FALSE]
    /\ lastNav = NoNav
    /\ tabActive = [t \in Tabs |-> t = NodeJs]
    /\ contentActive = [c \in Frameworks |-> c = NodeJs]
    /\ label = CopyLabel
    /\ writes = [l \in Labels |-> 0]
    /\ timers = <<>>
    /\ rejected = FALSE
    /\ opened = NoTab
    /\ early = 0

\* prev before any reload
NoPrev == <<Null, Null>>

Init ==
    /\ PageLoad
    /\ prev = NoPrev
    /\ doc = [sun |-> TRUE, moon |-> TRUE, prism |-> TRUE]
    /\ storedTheme \in {Null} \cup Themes
    /\ storedLanguage \in {Null} \cup Languages
    /\ innerWidth \in Widths
    /\ clipboard = ""

(***************************************************************************)
(* The DOMContentLoaded handler                                            *)
(***************************************************************************)
\* mutant: a failure of setTheme is swallowed and the handler goes on
StartupGoesOn ==
    /\ pc = "loading"
    /\ setTheme(OrElse(storedTheme, "dark"))
    /\ switchLanguage(OrElse(storedLanguage, "hr"))
    /\ observing' = TRUE
    /\ intercepting' = TRUE
    /\ pc' = IF SetThemeThrows THEN "failed" ELSE "ready"
    /\ UNCHANGED <<doc, sidebarActive, innerWidth, navActive, lastNav, tabVars,
                   copyVars, opened, early, prev>>

\* mutant: the observer and the click listeners are set up first, the theme and
\* the language are applied after them
StartupNavigationFirst ==
    /\ pc = "loading"
    /\ observing' = TRUE
    /\ intercepting' = TRUE
    /\ setTheme(OrElse(storedTheme, "dark"))
    /\ IF SetThemeThrows
       THEN /\ pc' = "failed"
            /\ UNCHANGED langVars
       ELSE /\ switchLanguage(OrElse(storedLanguage, "hr"))
            /\ pc' = "ready"
    /\ UNCHANGED <<doc, sidebarActive, innerWidth, navActive, lastNav, tabVars,
                   copyVars, opened, early, prev>>

Startup ==
    /\ pc = "loading"
    /\ setTheme(OrElse(storedTheme, "dark"))
    /\ IF SetThemeThrows
       THEN /\ pc' = "failed"
            /\ UNCHANGED <<langVars, observing, intercepting>>
       ELSE /\ switchLanguage(OrElse(storedLanguage, "hr"))
            /\ observing' = TRUE
            /\ intercepting' = TRUE
            /\ pc' = "ready"
    /\ UNCHANGED <<doc, sidebarActive, innerWidth, navActive, lastNav, tabVars,
                   copyVars, opened, early, prev>>

\* the page is loaded again in the same browser: a new document, the same
\* localStorage; pending promise callbacks and timers go with the old document
Reload ==
    /\ pc' = "loading"
    /\ dataTheme' = Null
    /\ docLang' = "hr"
    /\ sunDisplay' = ""
    /\ moonDisplay' = ""
    /\ prismHref' = PrismInitial
    /\ blockDisplay' = [b \in Blocks |-> ""]
    /\ textContent' = [el \in I18nEls |-> AsText(DataAttr(el, "hr"))]
    /\ langBtnActive' = [btn \in LangButtons |-> btn = "lang-hr-btn"]
    /\ sidebarActive' = FALSE
    /\ observing' = FALSE
    /\ intercepting' = FALSE
    /\ navActive' = [link \in NavLinks |-> FALSE]
    /\ lastNav' = NoNav
    /\ tabActive' = [t \in Tabs |-> t = NodeJs]
    /\ contentActive' = [c \in Frameworks |-> c = NodeJs]
    /\ label' = CopyLabel
    /\ writes' = [l \in Labels |-> 0]
    /\ timers' = <<>>
    /\ rejected' = FALSE
    /\ opened' = NoTab
    /\ early' = 0
    /\ prev' = IF pc = "ready" THEN <<dataTheme, docLang>> ELSE NoPrev
    /\ UNCHANGED <<doc, storedTheme, storedLanguage, innerWidth, clipboard>>

(***************************************************************************)
(* Events                                                                  *)
(***************************************************************************)
\* an event handled while the document is still loading counts against MaxEarly
Early ==
    /\ IF pc = "loading" THEN early < MaxEarly /\ early' = early + 1
       ELSE UNCHANGED early
    /\ UNCHANGED prev

ToggleTheme ==
    /\ Early
    /\ setTheme(NewTheme(dataTheme))
    /\ UNCHANGED <<pc, doc, langVars, sidebarActive, innerWidth, navVars, tabVars,
                   copyVars, opened>>

SetTheme(theme) ==
    /\ Early
    /\ setTheme(theme)
    /\ UNCHANGED <<pc, doc, langVars, sidebarActive, innerWidth, navVars, tabVars,
                   copyVars, opened>>

\* mutant: switching the language applies the default theme again
SwitchLanguageDark(lang) ==
    /\ Early
    /\ switchLanguage(lang)
    /\ setTheme("dark")
    /\ UNCHANGED <<pc, doc, sidebarActive, innerWidth, navVars, tabVars,
                   copyVars, opened>>

SwitchLanguage(lang) ==
    /\ Early
    /\ switchLanguage(lang)
    /\ UNCHANGED <<pc, doc, themeVars, sidebarActive, innerWidth, navVars, tabVars,
                   copyVars, opened>>

ToggleSidebar ==
    /\ Early
    /\ toggleSidebar
    /\ UNCHANGED <<pc, doc, themeVars, langVars, innerWidth, navVars, tabVars,
                   copyVars, opened>>

ShowFramework(framework) ==
    /\ Early
    /\ showFramework(framework)
    /\ UNCHANGED <<pc, doc, themeVars, langVars, sidebarActive, innerWidth, navVars,
                   copyVars, opened>>

\* what a click on a sidebar link leaves behind: the listener's effects when it is
\* attached, the browser's own jump to the anchor when it is not
NavClick(link, attached) ==
    LET targetId == Href(link)
        targetElement == QuerySelector(targetId)
    IN  [clicked |-> TRUE,
         prevented |-> attached,
         scroll |-> IF attached /\ targetElement # Null
                    THEN <<ScrollRequest(targetElement)>> ELSE <<>>]

\* the sidebar after a click on a sidebar link
NavSidebar(link, attached, width, sidebar) ==
    IF attached /\ QuerySelector(Href(link)) # Null /\ IsMobile(width)
    THEN ~sidebar ELSE sidebar

ClickNavLink(link) ==
    /\ Early
    /\ lastNav' = NavClick(link, intercepting)
    /\ sidebarActive' = NavSidebar(link, intercepting, innerWidth, sidebarActive)
    /\ UNCHANGED <<pc, doc, themeVars, langVars, innerWidth, observing,
                   intercepting, navActive, tabVars, copyVars, opened>>

\* the IntersectionObserver delivers a batch of entries
Observe(entries) ==
    /\ Early
    /\ observing
    /\ navActive' = ObserveBatch(navActive, entries)
    /\ UNCHANGED <<pc, doc, themeVars, langVars, sidebarActive, innerWidth,
                   observing, intercepting, lastNav, tabVars, copyVars, opened>>

InFlight == writes[CopyLabel] + writes[Copied]

\* copyCode(button): the clipboard write of the code block's text starts
CopyCode(limit) ==
    /\ Early
    /\ InFlight + Len(timers) < limit
    /\ writes' = [writes EXCEPT ![label] = @ + 1]
    /\ rejected' = FALSE
    /\ UNCHANGED <<pc, doc, themeVars, langVars, sidebarActive, innerWidth, navVars,
                   tabVars, label, clipboard, timers, opened>>

\* the timer the then-callback sets: originalText is the label shown when the write
\* resolves; before remembers the label shown at the click
RestoreTimer(before, current) ==
    [originalText |-> current, before |-> before, delay |-> RestoreDelay]

\* the then-callback of a write started while the button showed `before`
WriteResolved(before) ==
    /\ Early
    /\ writes[before] > 0
    /\ writes' = [writes EXCEPT ![before] = @ - 1]
    /\ clipboard' = CodeText
    /\ label' = Copied
    /\ timers' = Append(timers, RestoreTimer(before, label))
    /\ rejected' = FALSE
    /\ UNCHANGED <<pc, doc, themeVars, langVars, sidebarActive, innerWidth, navVars,
                   tabVars, opened>>

\* mutant: the callback is attached with finally, it runs on rejection too
WriteRejectedFinally(before) ==
    /\ Early
    /\ writes[before] > 0
    /\ writes' = [writes EXCEPT ![before] = @ - 1]
    /\ rejected' = TRUE
    /\ label' = Copied
    /\ timers' = Append(timers, RestoreTimer(before, label))
    /\ UNCHANGED <<pc, doc, themeVars, langVars, sidebarActive, innerWidth, navVars,
                   tabVars, clipboard, opened>>

\* a write is rejected: there is no catch
WriteRejected(before) ==
    /\ Early
    /\ writes[before] > 0
    /\ writes' = [writes EXCEPT ![before] = @ - 1]
    /\ rejected' = TRUE
    /\ UNCHANGED <<pc, doc, themeVars, langVars, sidebarActive, innerWidth, navVars,
                   tabVars, label, clipboard, timers, opened>>

\* mutant: the timer that fires cancels the others
TimerFiresCancels ==
    /\ Early
    /\ timers # <<>>
    /\ label' = Head(timers).originalText
    /\ timers' = <<>>
    /\ UNCHANGED <<pc, doc, themeVars, langVars, sidebarActive, innerWidth, navVars,
                   tabVars, clipboard, writes, rejected, opened>>

\* the oldest timer fires: button.textContent = originalText
TimerFires ==
    /\ Early
    /\ timers # <<>>
    /\ label' = Head(timers).originalText
    /\ timers' = Tail(timers)
    /\ UNCHANGED <<pc, doc, themeVars, langVars, sidebarActive, innerWidth, navVars,
                   tabVars, clipboard, writes, rejected, opened>>

AskAI(context) ==
    /\ Early
    /\ opened' = askAI(docLang, context)
    /\ UNCHANGED <<pc, doc, themeVars, langVars, sidebarActive, innerWidth,
                   navVars, tabVars, copyVars>>

Resize(width) ==
    /\ Early
    /\ innerWidth' = width
    /\ UNCHANGED <<pc, doc, themeVars, langVars, sidebarActive, navVars, tabVars,
                   copyVars, opened>>

Entries == [target : Sections, isIntersecting : {TRUE}]
               \cup [target : {"overview"}, isIntersecting : {FALSE}]
Batches == [1..1 -> Entries]
AskedTopics == {"auth_help"}

Next ==
    \/ Startup
    \/ ToggleTheme
    \/ \E theme \in Themes : SetTheme(theme)
    \/ \E lang \in Languages : SwitchLanguage(lang)
    \/ ToggleSidebar
    \/ \E framework \in FrameworkArgs : ShowFramework(framework)
    \/ \E link \in NavLinks : ClickNavLink(link)
    \/ \E entries \in Batches : Observe(entries)
    \/ CopyCode(MaxPending)
    \/ \E before \in Labels : WriteResolved(before)
    \/ \E before \in Labels : WriteRejected(before)
    \/ TimerFires
    \/ \E context \in AskedTopics : AskAI(context)
    \/ \E width \in Widths : Resize(width)

Spec == Init /\ [][Next]_vars

\* the copy button alone, with clicks that overlap
NextCopy ==
    \/ Startup
    \/ CopyCode(MaxOverlap)
    \/ \E before \in Labels : WriteResolved(before)
    \/ \E before \in Labels : WriteRejected(before)
    \/ TimerFires

SpecCopy == Init /\ [][NextCopy]_vars

\* the same, with what the browser guarantees: DOMContentLoaded is dispatched, a
\* clipboard write settles, a timer that is due fires
SpecCopyFair ==
    /\ SpecCopy
    /\ WF_vars(Startup)
    /\ WF_vars(\E before \in Labels : WriteResolved(before) \/ WriteRejected(before))
    /\ WF_vars(TimerFires)

\* the two preferences over page loads
NextPrefs ==
    \/ Startup
    \/ ToggleTheme
    \/ \E theme \in Themes : SetTheme(theme)
    \/ \E lang \in Languages : SwitchLanguage(lang)
    \/ Reload

SpecPrefs == Init /\ [][NextPrefs]_vars

\* outside the contract: a document without its theme elements, a language that
\* is neither hr nor en, topic keys the prompt table does not list
LanguageArgs == Languages \cup {"de", ""}
TopicArgs == Topics \cup {"unknown_key", "constructor"}

InitOpen ==
    /\ PageLoad
    /\ prev = NoPrev
    /\ doc \in [sun : BOOLEAN, moon : BOOLEAN, prism : BOOLEAN]
    /\ storedTheme \in {Null} \cup Themes
    /\ storedLanguage \in {Null, "en", "de"}
    /\ innerWidth = MobileWidth
    /\ clipboard = ""

NextOpen ==
    \/ Startup
    \/ ToggleTheme
    \/ \E theme \in Themes : SetTheme(theme)
    \/ \E lang \in LanguageArgs : SwitchLanguage(lang)
    \/ \E context \in TopicArgs : AskAI(context)

SpecOpen == InitOpen /\ [][NextOpen]_vars

\* navigation: batches of several entries, page loads that fail at the theme
\* icons, reloads
NavBatches == UNION {[1..n -> Entries] : n \in 1..MaxBatch}

InitNav ==
    /\ PageLoad
    /\ prev = NoPrev
    /\ doc \in [sun : {TRUE}, moon : BOOLEAN, prism : {TRUE}]
    /\ storedTheme \in {Null} \cup Themes
    /\ storedLanguage \in {Null} \cup Languages
    /\ innerWidth \in Widths
    /\ clipboard = ""

NextNav ==
    \/ Startup
    \/ Reload
    \/ ToggleTheme
    \/ \E lang \in Languages : SwitchLanguage(lang)
    \/ ToggleSidebar
    \/ \E link \in NavLinks : ClickNavLink(link)
    \/ \E entries \in NavBatches : Observe(entries)
    \/ \E width \in Widths : Resize(width)

SpecNav == InitNav /\ [][NextNav]_vars

\* every synchronous handler side by side, the copy button left out
NextFrame ==
    \/ Startup
    \/ ToggleTheme
    \/ \E theme \in Themes : SetTheme(theme)
    \/ \E lang \in Languages : SwitchLanguage(lang)
    \/ ToggleSidebar
    \/ \E framework \in FrameworkArgs : ShowFramework(framework)
    \/ \E link \in NavLinks : ClickNavLink(link)
    \/ \E entries \in Batches : Observe(entries)
    \/ \E context \in AskedTopics : AskAI(context)

SpecFrame == InitNav /\ [][NextFrame]_vars

(***************************************************************************)
(* Properties                                                              *)
(***************************************************************************)
Visible(display) == display # "none"
ActiveTabs == {t \in Tabs : tabActive[t]}
ActiveBlocks == {c \in Frameworks : contentActive[c]}
VisibleLanguages == {DataLang(b) : b \in {x \in Blocks : Visible(blockDisplay[x])}}

\* C1: once the startup sequence has run, whatever events follow, exactly one of
\* the sun and moon icons is visible, and it is the one of the persisted theme:
\* the moon for "dark", the sun for "light".
C1_OneIconMatchesStoredTheme ==
    pc = "ready" =>
        /\ Visible(sunDisplay) # Visible(moonDisplay)
        /\ storedTheme \in Themes
        /\ storedTheme = "dark" => Visible(moonDisplay)
        /\ storedTheme = "light" => Visible(sunDisplay)

\* C1 witness: after startup the theme was switched to light and the sun shows.
C1_Witness ==
    /\ pc = "ready"
    /\ storedTheme = "light"
    /\ Visible(sunDisplay)
    /\ ~Visible(moonDisplay)

\* C2: every step that applies setTheme(t), for t dark or light, ends with the
\* persisted theme t, the root attribute t, and exactly one icon visible, the
\* one of t.
C2_SetThemePostcondition ==
    [][\A t \in Themes :
          (Startup /\ t = OrElse(storedTheme, "dark"))
            \/ (ToggleTheme /\ t = NewTheme(dataTheme))
            \/ SetTheme(t)
          => /\ storedTheme' = t
             /\ dataTheme' = t
             /\ Visible(sunDisplay') # Visible(moonDisplay')
             /\ Visible(moonDisplay') = (t = "dark")]_vars

\* C2 witness: setTheme("light") has been applied to a page that was dark.
C2_Witness ==
    /\ storedTheme = "light"
    /\ dataTheme = "light"
    /\ sunDisplay = "block"
    /\ moonDisplay = "none"

\* C3: once the startup sequence has run, the visible content blocks are
\* exactly those whose data-lang is the persisted language, so exactly one
\* language is visible.
C3_OneLanguageVisible ==
    pc = "ready" =>
        /\ storedLanguage \in Languages
        /\ \A b \in Blocks : Visible(blockDisplay[b]) <=> DataLang(b) = storedLanguage
        /\ VisibleLanguages = {storedLanguage}

\* C3 witness: after startup the language was switched to English.
C3_Witness ==
    /\ pc = "ready"
    /\ storedLanguage = "en"
    /\ Visible(blockDisplay["intro-en"])
    /\ ~Visible(blockDisplay["intro-hr"])

\* C4: every step that applies switchLanguage(l), for l hr or en, ends with
\* exactly the data-lang=l blocks visible and with every data-hr/data-en
\* element showing the text of its data-l attribute (no text when it has none).
C4_SwitchLanguagePostcondition ==
    [][\A l \in Languages :
          (Startup /\ ~SetThemeThrows /\ l = OrElse(storedLanguage, "hr"))
            \/ SwitchLanguage(l)
          => /\ \A b \in Blocks : Visible(blockDisplay'[b]) <=> DataLang(b) = l
             /\ \A el \in I18nEls :
                    textContent'[el] = IF DataAttr(el, l) = Null THEN ""
                                       ELSE DataAttr(el, l)]_vars

\* C4 witness: switchLanguage("en") has been applied.
C4_Witness ==
    /\ docLang = "en"
    /\ textContent["nav-auth"] = "Authentication"
    /\ textContent["nav-overview"] = "Overview"
    /\ blockDisplay["auth-en"] = ""
    /\ blockDisplay["auth-hr"] = "none"

\* C5: in every reachable state, after any showFramework calls with any
\* argument, exactly one tab button is marked active.
C5_ExactlyOneActiveTab == Cardinality(ActiveTabs) = 1

\* C6: whenever the active example blocks are exactly the block of a framework,
\* the active tab buttons are exactly the button of that framework.
C6_ActiveTabIsActiveBlock ==
    \A name \in Frameworks : ActiveBlocks = {name} => ActiveTabs = {name}

\* C7: a click on a sidebar link whose listener runs at a viewport width of at
\* most 1024 leaves the sidebar without the 'active' class, whatever it was.
C7_MobileClickClosesSidebar ==
    [][\A link \in NavLinks :
          ClickNavLink(link) /\ intercepting /\ innerWidth <= MobileWidth
          => ~sidebarActive']_vars

\* C8 as stated, for the clicks made after the startup sequence: every click
\* on a sidebar link is kept from jumping and issues a smooth scroll to the
\* target's offsetTop minus 80; none completes without such a scroll.
C8_EveryClickScrolls ==
    [][\A link \in NavLinks :
          ClickNavLink(link) /\ pc = "ready"
          => /\ lastNav'.prevented
             /\ Len(lastNav'.scroll) = 1
             /\ lastNav'.scroll[1].behavior = "smooth"
             /\ QuerySelector(Href(link)) # Null
             /\ lastNav'.scroll[1].top
                  = OffsetTop(QuerySelector(Href(link))) - HeaderOffset]_vars

\* C8 amended: every click on a sidebar link made once the startup sequence has
\* attached the listeners is kept from jumping; when the href matches an
\* element exactly one smooth scroll to its offsetTop minus 80 is issued, and
\* when it matches none no scroll is issued.
C8_InterceptedClickScrolls ==
    [][\A link \in NavLinks :
          ClickNavLink(link) /\ intercepting
          => /\ lastNav'.clicked
             /\ lastNav'.prevented
             /\ lastNav'.scroll =
                    IF QuerySelector(Href(link)) = Null THEN <<>>
                    ELSE <<[top |-> OffsetTop(QuerySelector(Href(link))) - HeaderOffset,
                            behavior |-> "smooth"]>>]_vars

\* C8 witness: the listener of the link to #auth (offsetTop 900) has run.
C8_Witness ==
    /\ lastNav.clicked
    /\ lastNav.prevented
    /\ lastNav.scroll = <<[top |-> 820, behavior |-> "smooth"]>>

\* C9: a resolved clipboard write leaves the code block's text on the
\* clipboard and 'Copied!' on the button and sets a 2000 ms timer; when the
\* timer of a click made on the button's original label fires, the button
\* shows that label again.
C9_CopyConfirmsThenRestores ==
    [][/\ \A before \in Labels :
            WriteResolved(before)
            => /\ clipboard' = CodeText
               /\ label' = Copied
               /\ timers'[Len(timers')].delay = RestoreDelay
       /\ TimerFires /\ Head(timers).before = CopyLabel => label' = CopyLabel]_vars

\* C10: once no clipboard write is in flight and no restore timer is pending,
\* the button shows its original label.
C10_QuiescentLabelIsOriginal ==
    (InFlight = 0 /\ timers = <<>>) => label = CopyLabel

\* C11: from a state whose root attribute is "dark" or "light", one toggleTheme
\* gives the opposite theme, and two of them give back the root attribute, the
\* persisted theme, the visibility of both icons and the stylesheet reference.
C11_ToggleThemeIsInvolution ==
    dataTheme \in Themes =>
        LET once == ToggleThemeOn(ThemeState)
            twice == ToggleThemeOn(once)
        IN  /\ once.dataTheme \in Themes \ {dataTheme}
            /\ twice.dataTheme = dataTheme
            /\ twice.storedTheme = storedTheme
            /\ Visible(twice.sun) = Visible(sunDisplay)
            /\ Visible(twice.moon) = Visible(moonDisplay)
            /\ twice.prism = prismHref

C11_Witness ==
    /\ pc = "ready"
    /\ dataTheme = "light"
    /\ Visible(sunDisplay)
    /\ ToggleThemeOn(ThemeState).dataTheme = "dark"
    /\ ToggleThemeOn(ToggleThemeOn(ThemeState)) = ThemeState

\* C12, as claimed: toggleTheme on a root element without the attribute gives
\* the theme "light".
C12_UnsetAttributeTogglesToLight ==
    [][ToggleTheme /\ dataTheme = Null => dataTheme' = "light"]_vars

\* C12, as the code has it: toggleTheme on a root element without the attribute
\* gives the theme "dark", attribute and storage alike.
C12_UnsetAttributeTogglesToDark ==
    [][ToggleTheme /\ dataTheme = Null =>
           /\ dataTheme' = "dark"
           /\ storedTheme' = "dark"
           /\ Visible(moonDisplay') /\ ~Visible(sunDisplay')]_vars

C12_Witness ==
    /\ pc = "loading"
    /\ early = 1
    /\ dataTheme = "dark"
    /\ storedTheme = "dark"
    /\ Visible(moonDisplay) /\ ~Visible(sunDisplay)

\* C13: in a fresh session, with neither preference persisted, startup completes
\* without error with theme "dark" and language "hr": the root attribute is
\* dark, the document language hr, the Croatian blocks and sidebar strings show.
C13_FreshSessionDefaults ==
    [][Startup /\ storedTheme = Null /\ storedLanguage = Null =>
           /\ pc' = "ready"
           /\ dataTheme' = "dark" /\ storedTheme' = "dark"
           /\ docLang' = "hr" /\ storedLanguage' = "hr"
           /\ \A b \in Blocks : Visible(blockDisplay'[b]) = (DataLang(b) = "hr")
           /\ \A el \in I18nEls : textContent'[el] = AsText(DataAttr(el, "hr"))]_vars

C13_Witness ==
    /\ pc = "ready"
    /\ prev = NoPrev
    /\ early = 0
    /\ dataTheme = "dark" /\ storedTheme = "dark"
    /\ docLang = "hr" /\ storedLanguage = "hr"
    /\ textContent["nav-auth"] = "Autentifikacija"

\* C14: the preferences survive a reload: the startup of the next page load
\* applies the theme and the language the previous page load ended with.
C14_PreferencesSurviveReload ==
    [][Startup /\ prev # NoPrev /\ early = 0 =>
           /\ pc' = "ready"
           /\ dataTheme' = prev[1] /\ storedTheme' = prev[1]
           /\ Visible(moonDisplay') = (prev[1] = "dark")
           /\ Visible(sunDisplay') = (prev[1] = "light")
           /\ docLang' = prev[2] /\ storedLanguage' = prev[2]
           /\ \A b \in Blocks : Visible(blockDisplay'[b]) = (DataLang(b) = prev[2])
           /\ \A el \in I18nEls : textContent'[el] = AsText(DataAttr(el, prev[2]))]_vars

C14_Witness ==
    /\ pc = "ready"
    /\ early = 0
    /\ prev = <<"light", "en">>
    /\ dataTheme = "light"
    /\ docLang = "en"

\* the URL-encoding of "I need help with OAuth2 authentication for the SudReg
\* API. How does it work?" and of the Croatian general prompt, written out
EnglishAuthHelpQuery ==
    <<73, 37, 50, 48, 110, 101, 101, 100, 37, 50, 48, 104, 101, 108, 112,
      37, 50, 48, 119, 105, 116, 104, 37, 50, 48, 79, 65, 117, 116, 104, 50,
      37, 50, 48, 97, 117, 116, 104, 101, 110, 116, 105, 99, 97, 116, 105,
      111, 110, 37, 50, 48, 102, 111, 114, 37, 50, 48, 116, 104, 101, 37,
      50, 48, 83, 117, 100, 82, 101, 103, 37, 50, 48, 65, 80, 73, 46, 37,
      50, 48, 72, 111, 119, 37, 50, 48, 100, 111, 101, 115, 37, 50, 48, 105,
      116, 37, 50, 48, 119, 111, 114, 107, 37, 51, 70>>

CroatianGeneralQuery ==
    <<90, 100, 114, 97, 118, 111, 37, 50, 48, 66, 111, 114, 110, 65, 73, 33,
      37, 50, 48, 37, 67, 53, 37, 66, 68, 101, 108, 105, 109, 37, 50, 48,
      110, 97, 117, 37, 67, 52, 37, 56, 68, 105, 116, 105, 37, 50, 48, 118,
      105, 37, 67, 53, 37, 65, 49, 101, 37, 50, 48, 111, 37, 50, 48, 83,
      117, 100, 82, 101, 103, 37, 50, 48, 65, 80, 73, 45, 106, 117, 46, 37,
      50, 48, 77, 111, 37, 67, 53, 37, 66, 69, 101, 37, 67, 53, 37, 65, 49,
      37, 50, 48, 108, 105, 37, 50, 48, 109, 105, 37, 50, 48, 112, 111, 109,
      111, 37, 67, 52, 37, 56, 55, 105, 37, 51, 70>>

\* C15: under each language l of hr, en and each topic k of the table, askAI(k)
\* opens exactly one new tab, at the assistant endpoint, whose q is the
\* URL-encoding of the prompt stored for (l, k); askAI("auth_help") under en
\* carries the English OAuth2 prompt.
C15_AskAIOpensThePrompt ==
    [][\A l \in Languages : \A k \in Topics :
           AskAI(k) /\ docLang = l =>
               /\ opened'.error = ""
               /\ opened'.tabs = <<[endpoint |-> "https://bornai.com.hr/",
                                    q |-> EncodeURIComponent(Prompts[l][k]),
                                    target |-> "_blank"]>>
               /\ l = "en" /\ k = "auth_help" =>
                      opened'.tabs[1].q = EnglishAuthHelpQuery]_vars

C15_Witness ==
    /\ docLang = "en"
    /\ opened.error = ""
    /\ Len(opened.tabs) = 1
    /\ opened.tabs[1].q = EnglishAuthHelpQuery

\* C16, as claimed: for every topic key that is not in the prompt table of the
\* active language, askAI does not fail and opens a tab carrying the general
\* prompt of that language.
C16_UnknownTopicGetsGeneralPrompt ==
    [][\A l \in Languages : \A k \in TopicArgs \ Topics :
           AskAI(k) /\ docLang = l =>
               /\ opened'.error = ""
               /\ Len(opened'.tabs) = 1
               /\ opened'.tabs[1].q = EncodeURIComponent(Prompts[l].general)
               /\ l = "hr" => opened'.tabs[1].q = CroatianGeneralQuery]_vars

\* C17, as claimed: when the document language is missing or neither hr nor en,
\* askAI does not fail and opens the tab.
C17_UnknownLanguageStillOpens ==
    [][\A k \in TopicArgs :
           AskAI(k) /\ docLang \notin Languages =>
               /\ opened'.error = ""
               /\ Len(opened'.tabs) = 1]_vars

\* C18: when the clipboard write fails, the label stays, no restore timer is
\* scheduled and nothing else of the controller's state changes.
C18_RejectedWriteChangesNothing ==
    [][\A before \in Labels :
           WriteRejected(before) =>
               UNCHANGED <<label, timers, clipboard, pc, themeVars, langVars,
                           sidebarActive, navVars, tabVars, opened>>]_vars

C18_Witness ==
    /\ rejected
    /\ InFlight = 0
    /\ label = CopyLabel
    /\ timers = <<>>
    /\ clipboard = ""

\* C19: setTheme is idempotent: for each valid theme t, a second setTheme(t)
\* leaves the root attribute, the persisted theme, both icons and the stylesheet
\* reference as the first one left them.
C19_SetThemeIsIdempotent ==
    \A t \in Themes :
        LET first == SetThemeOn(ThemeState, t)
        IN  SetThemeOn(first, t) = first

C19_Witness ==
    /\ pc = "ready"
    /\ dataTheme = "light"
    /\ ThemeState = SetThemeOn(ThemeState, "light")
    /\ ThemeState # SetThemeOn(ThemeState, "dark")

\* C20: when a theme icon is absent, setTheme fails, and only after the root
\* attribute and the persisted theme were overwritten: the statements after the
\* failing one are not run, and a startup that fails there is aborted.
C20_MissingIconFailsAfterWrites ==
    [][\A t \in Themes :
           /\ SetThemeThrows
           /\ \/ SetTheme(t)
              \/ ToggleTheme /\ t = NewTheme(dataTheme)
              \/ Startup /\ t = OrElse(storedTheme, "dark")
           => /\ dataTheme' = t
              /\ storedTheme' = t
              /\ moonDisplay' = moonDisplay
              /\ prismHref' = prismHref
              /\ pc = "loading" /\ pc' # "loading" => pc' = "failed"]_vars

C20_Witness ==
    /\ ~doc.moon
    /\ pc = "failed"
    /\ dataTheme = "light"
    /\ storedTheme = "light"
    /\ sunDisplay = "block"
    /\ moonDisplay = ""
    /\ prismHref = PrismInitial

\* C21: for every batch the observer delivers: if some entry of it intersects,
\* the active sidebar links afterwards are exactly those whose href is '#' plus
\* the id of the last intersecting entry in delivery order; if none intersects,
\* the active links are unchanged.
C21_LastIntersectingEntryWins ==
    [][\A entries \in NavBatches :
           Observe(entries) =>
               LET hits == SelectSeq(entries, LAMBDA e : e.isIntersecting)
               IN  IF hits = <<>> THEN navActive' = navActive
                   ELSE \A link \in NavLinks :
                            navActive'[link] =
                                (Href(link) = <<"#", hits[Len(hits)].target>>)]_vars

C21_Witness ==
    /\ pc = "ready"
    /\ observing
    /\ navActive["l-auth"]
    /\ ~navActive["l-gone"]

\* C22: once switchLanguage has run with valid languages, exactly one
\* language-switch button is marked active: the one with id lang-{l}-btn, l being
\* both the persisted language and the document language.
C22_OneLangButtonMatchesLanguage ==
    pc = "ready" =>
        /\ docLang \in Languages
        /\ storedLanguage = docLang
        /\ {btn \in LangButtons : langBtnActive[btn]} =
               {IF docLang = "hr" THEN "lang-hr-btn" ELSE "lang-en-btn"}

C22_Witness ==
    /\ pc = "ready"
    /\ docLang = "en"
    /\ storedLanguage = "en"
    /\ langBtnActive["lang-en-btn"]
    /\ ~langBtnActive["lang-hr-btn"]

\* C23: in every state after startup, when the syntax-colouring stylesheet link
\* exists its target matches the theme (the dark URL iff "dark", the light one
\* iff "light"); when it is absent, setTheme still completes and updates the
\* attribute, the storage and the icons.
C23_StylesheetFollowsTheme ==
    /\ [](pc = "ready" /\ doc.prism =>
              /\ dataTheme \in Themes
              /\ (prismHref = PrismDark) = (dataTheme = "dark")
              /\ (prismHref = PrismLight) = (dataTheme = "light"))
    /\ [][\A t \in Themes :
              /\ ~doc.prism /\ doc.sun /\ doc.moon
              /\ \/ SetTheme(t)
                 \/ ToggleTheme /\ t = NewTheme(dataTheme)
                 \/ Startup /\ t = OrElse(storedTheme, "dark")
              => /\ dataTheme' = t
                 /\ storedTheme' = t
                 /\ Visible(moonDisplay') = (t = "dark")
                 /\ Visible(sunDisplay') = (t = "light")
                 /\ pc = "loading" /\ pc' # "loading" => pc' = "ready"]_vars

C23_Witness ==
    /\ pc = "ready"
    /\ ~doc.prism
    /\ dataTheme = "light"
    /\ storedTheme = "light"
    /\ Visible(sunDisplay) /\ ~Visible(moonDisplay)

\* C24: the startup sequence runs once per page load and in a fixed order: the
\* theme is applied before the language, the language before the observer is
\* registered, the observer before the click listeners are attached; no observer
\* notification and no intercepted link click is handled before theme and
\* language have been applied.
C24_StartupRunsOnceInOrder ==
    /\ [](observing \/ intercepting =>
              /\ pc = "ready"
              /\ observing /\ intercepting
              /\ dataTheme \in Themes /\ dataTheme = storedTheme
              /\ docLang \in Languages /\ docLang = storedLanguage)
    /\ [][/\ Startup => pc = "loading" /\ pc' # "loading"
          /\ pc # "loading" /\ pc' = "loading" => Reload
          /\ Startup /\ pc' = "failed" =>
                 /\ dataTheme' = OrElse(storedTheme, "dark")
                 /\ UNCHANGED langVars
                 /\ ~observing' /\ ~intercepting'
          /\ \A entries \in NavBatches : Observe(entries) => pc = "ready"
          /\ \A link \in NavLinks :
                 ClickNavLink(link) /\ lastNav'.prevented => pc = "ready"]_vars

C24_Witness ==
    /\ pc = "ready"
    /\ prev # NoPrev
    /\ observing /\ intercepting
    /\ lastNav.prevented
    /\ navActive["l-auth"]

\* C25: in every state after the startup sequence has completed, the root theme
\* attribute is set and equals the persisted theme, and the document language
\* equals the persisted language; so toggleTheme, which reads the attribute,
\* never sees it unset and toggles relative to the persisted theme.
C25_AttributesEqualStorage ==
    /\ [](pc = "ready" =>
              /\ dataTheme \in Themes
              /\ dataTheme = storedTheme
              /\ docLang = storedLanguage)
    /\ [][ToggleTheme /\ pc = "ready" =>
              /\ dataTheme # Null
              /\ storedTheme \in Themes
              /\ storedTheme' \in Themes \ {storedTheme}
              /\ dataTheme' = storedTheme']_vars

C25_Witness ==
    /\ pc = "ready"
    /\ prev = <<"dark", "hr">>
    /\ dataTheme = "light"
    /\ storedTheme = "light"
    /\ docLang = "en"
    /\ storedLanguage = "en"

\* C26: starting from storage whose keys are absent or hold allowed values, after
\* startup and any toggleTheme and switchLanguage("hr"/"en") events both keys are
\* present, 'theme' holds "dark" or "light" and 'language' holds "hr" or "en"; no
\* operation writes a value outside these sets or removes a key.
C26_StorageStaysInDomain ==
    /\ [](/\ storedTheme \in {Null} \cup Themes
          /\ storedLanguage \in {Null} \cup Languages
          /\ pc = "ready" => storedTheme \in Themes /\ storedLanguage \in Languages)
    /\ [][/\ storedTheme # Null => storedTheme' # Null
          /\ storedLanguage # Null => storedLanguage' # Null]_vars

C26_Witness ==
    /\ pc = "ready"
    /\ prev = <<"light", "hr">>
    /\ storedTheme = "dark"
    /\ storedLanguage = "en"

\* C27: the operations are independent: setTheme and toggleTheme leave the
\* language preference, the document language, the content visibility, the
\* sidebar class, the active nav link and the active framework tab unchanged;
\* switchLanguage leaves the theme attribute, the persisted theme, the icons and
\* the stylesheet unchanged; toggleSidebar, showFramework, askAI and the
\* navigation observer leave both persisted preferences unchanged.
C27_OperationsAreIndependent ==
    [][/\ (ToggleTheme \/ \E theme \in Themes : SetTheme(theme)) =>
              UNCHANGED <<storedLanguage, docLang, blockDisplay, sidebarActive,
                          navActive, tabActive, contentActive>>
       /\ (\E lang \in Languages : SwitchLanguage(lang)) =>
              UNCHANGED <<dataTheme, storedTheme, sunDisplay, moonDisplay,
                          prismHref>>
       /\ (\/ ToggleSidebar
           \/ \E framework \in FrameworkArgs : ShowFramework(framework)
           \/ \E context \in AskedTopics : AskAI(context)
           \/ \E entries \in Batches : Observe(entries)) =>
              UNCHANGED <<storedTheme, storedLanguage>>]_vars

C27_Witness ==
    /\ pc = "ready"
    /\ dataTheme = "light"
    /\ docLang = "en"
    /\ sidebarActive
    /\ navActive["l-auth"]
    /\ tabActive # [t \in Tabs |-> t = NodeJs]
    /\ opened # NoTab

\* C28: a click on a sidebar link changes the sidebar's class only when the
\* link's target element exists and the viewport is at most 1024 wide; with a
\* wider viewport, or an href that matches no element, the class is unchanged,
\* and in the latter case no scroll is requested.
C28_ClickTogglesSidebarOnlyOnMobile ==
    [][\A link \in NavLinks :
           ClickNavLink(link) =>
               LET found == Href(link)[2] \in Sections
               IN  /\ sidebarActive' # sidebarActive <=>
                          intercepting /\ found /\ innerWidth <= MobileWidth
                   /\ innerWidth > MobileWidth => sidebarActive' = sidebarActive
                   /\ ~found => /\ sidebarActive' = sidebarActive
                                /\ lastNav'.scroll = <<>>]_vars

C28_Witness ==
    /\ pc = "ready"
    /\ innerWidth > MobileWidth
    /\ lastNav.prevented
    /\ lastNav.scroll # <<>>
    /\ ~sidebarActive

\* C29: if applying the theme fails during startup (a theme icon is missing),
\* the rest of the startup sequence is never run: the persisted language is not
\* applied, the observer is not registered and no click is intercepted, so the
\* sidebar links keep their native jump for the whole life of the page.
C29_FailedStartupSkipsTheRest ==
    /\ [](pc = "failed" => SetThemeThrows /\ ~observing /\ ~intercepting)
    /\ [][/\ Startup /\ SetThemeThrows =>
                 /\ pc' = "failed"
                 /\ UNCHANGED langVars
                 /\ ~observing' /\ ~intercepting'
          /\ pc = "failed" /\ pc' # "failed" => Reload
          /\ pc = "failed" =>
                 /\ \A entries \in NavBatches : ~Observe(entries)
                 /\ \A link \in NavLinks :
                        ClickNavLink(link) =>
                            /\ lastNav'.clicked /\ ~lastNav'.prevented
                            /\ lastNav'.scroll = <<>>
                            /\ sidebarActive' = sidebarActive]_vars

C29_Witness ==
    /\ pc = "failed"
    /\ storedLanguage = "en"
    /\ docLang = "hr"
    /\ ~observing
    /\ lastNav.clicked
    /\ ~lastNav.prevented

\* C30: every successful clipboard write schedules exactly one label-restore
\* callback and none is ever cancelled: a pending restore leaves only by firing,
\* oldest first, and writes the label captured when its own write succeeded; once
\* the clicks stop, eventually no restore remains pending.
C30_RestoresAreScheduledOnceAndFire ==
    /\ [][/\ \A before \in Labels :
                 WriteResolved(before) =>
                     /\ Len(timers') = Len(timers) + 1
                     /\ SubSeq(timers', 1, Len(timers)) = timers
                     /\ timers'[Len(timers')].originalText = label
                     /\ timers'[Len(timers')].delay = RestoreDelay
          /\ timers' # timers /\ Len(timers') <= Len(timers) =>
                 /\ TimerFires
                 /\ timers' = Tail(timers)
                 /\ label' = Head(timers).originalText]_vars
    /\ (<>[][~CopyCode(MaxOverlap)]_vars => <>[](timers = <<>>))

C30_Witness ==
    /\ InFlight = 0
    /\ Len(timers) = 2
    /\ timers[1].originalText = CopyLabel
    /\ timers[2].originalText = Copied

====
